---- MODULE Spec2Model ----
(***************************************************************************)
(* Model of upload_script.py: the batch job that reads drive.txt,          *)
(* downloads each Google Drive link, re-hosts it as a GitHub release       *)
(* asset and rewrites drive.txt with the resulting GitHub links.           *)
(*                                                                         *)
(* Strings are sequences of code points, so that substring tests,          *)
(* strip(), the regular expressions and the sanitiser are computed          *)
(* character by character as the Python code computes them.  A code point  *)
(* is written as the one-character string of it, with the escapes \t, \n,  *)
(* \r and \f, and as "U+XXXX" (four hexadecimal digits) when a string      *)
(* literal cannot hold it: "U+00A0" is the no-break space.  A text file    *)
(* is the sequence of its lines without the line terminators (readlines()  *)
(* splits at them, strip() removes them and the final write puts one back  *)
(* after every link).  Python's None and the empty string are both the     *)
(* empty sequence: the code only ever tests them for truthiness.           *)
(***************************************************************************)
EXTENDS Integers, Sequences, FiniteSets, TLC

(***************************************************************************)
(* Bounds of the model.                                                    *)
(***************************************************************************)
\* longest drive.txt explored, in lines
MaxLines == 2

(***************************************************************************)
(* Program constants.                                                      *)
(***************************************************************************)
\* generate_random_suffix(length=6)
SuffixLength == 6
\* file_id[:8]
IdPrefixLen == 8
\* [:50] of the sanitised base name
SafeNameMax == 50
\* "if counter > 10"
MaxCounter == 10
\* the value int(time.time()) returns when the fallback tag is built
Clock == 1700000000

None == <<>>

\* 'github.com'
GITHUB == <<"g","i","t","h","u","b",".","c","o","m">>
\* 'drive.google.com'
DRIVE == <<"d","r","i","v","e",".","g","o","o","g","l","e",".","c","o","m">>
\* r'/file/d/', r'id=', r'/d/': the literal heads of the three patterns, each
\* followed by the group ([a-zA-Z0-9_-]+)
patterns ==
    << <<"/","f","i","l","e","/","d","/">>,
       <<"i","d","=">>,
       <<"/","d","/">> >>
\* "temp_videos"
temp_folder == <<"t","e","m","p","_","v","i","d","e","o","s">>
\* 'video_'
VIDEO_US == <<"v","i","d","e","o","_">>
\* "video-"
VIDEO_DASH == <<"v","i","d","e","o","-">>
\* '.mp4'
MP4 == <<".","m","p","4">>

Lower == {"a","b","c","d","e","f","g","h","i","j","k","l","m","n","o","p","q","r","s","t","u","v","w","x","y","z"}
Upper == {"A","B","C","D","E","F","G","H","I","J","K","L","M","N","O","P","Q","R","S","T","U","V","W","X","Y","Z"}
Digit == {"0","1","2","3","4","5","6","7","8","9"}
\* the character class [a-zA-Z0-9_-]
IdChars == Lower \cup Upper \cup Digit \cup {"_", "-"}
\* the 29 code points str.strip() removes (those with str.isspace()): the
\* ASCII ones \t \n \x0b \x0c \r \x1c-\x1f and space, \x85, \xa0 and the
\* Unicode spaces and separators
Whitespace ==
    { "\t", "\n", "U+000B", "\f", "\r", "U+001C", "U+001D", "U+001E", "U+001F", " ",
      "U+0085", "U+00A0", "U+1680",
      "U+2000", "U+2001", "U+2002", "U+2003", "U+2004", "U+2005", "U+2006",
      "U+2007", "U+2008", "U+2009", "U+200A",
      "U+2028", "U+2029", "U+202F", "U+205F", "U+3000" }

(***************************************************************************)
(* String primitives.                                                      *)
(***************************************************************************)
\* s[i:] starts with p (i is 1-based)
StartsWithAt(s, p, i) ==
    /\ i >= 1
    /\ i + Len(p) - 1 <= Len(s)
    /\ \A j \in 1..Len(p) : s[i + j - 1] = p[j]

\* Python's "p in s" on strings: the empty string is in every string, and
\* otherwise p starts somewhere in s
Contains(s, p) ==
    \/ p = <<>>
    \/ \E i \in 1..(Len(s) - Len(p) + 1) :
          /\ s[i] = p[1]
          /\ \A j \in 2..Len(p) : s[i + j - 1] = p[j]

\* s[:n]
Take(s, n) == SubSeq(s, 1, IF n < Len(s) THEN n ELSE Len(s))

RECURSIVE LStrip(_)
\* str.lstrip()
LStrip(s) == IF s # <<>> /\ s[1] \in Whitespace THEN LStrip(Tail(s)) ELSE s

RECURSIVE RStrip(_)
\* str.rstrip()
RStrip(s) ==
    IF s # <<>> /\ s[Len(s)] \in Whitespace THEN RStrip(SubSeq(s, 1, Len(s) - 1)) ELSE s

\* str.strip()
Strip(s) == RStrip(LStrip(s))

\* re.search(head + '([a-zA-Z0-9_-]+)', s).group(1), or None: the leftmost
\* place where head is followed by a character of the class, and the longest
\* run of the class from there
ReSearchGroup(head, s) ==
    LET hits == {i \in 1..Len(s) :
                    /\ StartsWithAt(s, head, i)
                    /\ i + Len(head) <= Len(s)
                    /\ s[i + Len(head)] \in IdChars}
    IN  IF hits = {} THEN None
        ELSE LET at == CHOOSE i \in hits : \A j \in hits : i <= j
                 from == at + Len(head)
                 ends == {e \in from..Len(s) :
                            /\ \A k \in from..e : s[k] \in IdChars
                            /\ (e = Len(s) \/ s[e + 1] \notin IdChars)}
                 to == CHOOSE e \in ends : TRUE
             IN  SubSeq(s, from, to)

RECURSIVE FirstMatch(_, _)
\* "for pattern in patterns: match = re.search(pattern, url); if match: return"
FirstMatch(url, k) ==
    IF k > Len(patterns) THEN None
    ELSE LET g == ReSearchGroup(patterns[k], url)
         IN  IF g # None THEN g ELSE FirstMatch(url, k + 1)

extract_drive_file_id(url) == FirstMatch(url, 1)

\* f'video_{file_id[:8]}.mp4'
FallbackName(file_id) == VIDEO_US \o Take(file_id, IdPrefixLen) \o MP4

\* the place of the last '/' of p, 0 when there is none
RFindSlash(p) ==
    LET slashes == {i \in 1..Len(p) : p[i] = "/"}
    IN  IF slashes = {} THEN 0 ELSE CHOOSE i \in slashes : \A j \in slashes : i >= j

\* os.path.basename(file_path): what follows the last '/'
Basename(p) == SubSeq(p, RFindSlash(p) + 1, Len(p))

RECURSIVE PathName(_)
\* Path(original_name).name: pathlib splits at '/', drops the empty and the
\* '.' components, and the name is the last component left ('' when none is)
PathName(p) ==
    IF Basename(p) \notin {<<>>, <<".">>} THEN Basename(p)
    ELSE IF RFindSlash(p) = 0 THEN <<>>
    ELSE PathName(SubSeq(p, 1, RFindSlash(p) - 1))

\* name.rfind('.'), 1-based, 0 when there is no dot
RFindDot(name) ==
    LET dots == {i \in 1..Len(name) : name[i] = "."}
    IN  IF dots = {} THEN 0 ELSE CHOOSE i \in dots : \A j \in dots : i >= j

\* pathlib's suffix and stem split the name at its last dot unless that dot is
\* the first or the last character
HasSuffix(name) == RFindDot(name) > 1 /\ RFindDot(name) < Len(name)

\* Path(original_name).suffix
PathSuffix(p) ==
    LET name == PathName(p)
    IN  IF HasSuffix(name) THEN SubSeq(name, RFindDot(name), Len(name)) ELSE <<>>

\* Path(original_name).stem
PathStem(p) ==
    LET name == PathName(p)
    IN  IF HasSuffix(name) THEN SubSeq(name, 1, RFindDot(name) - 1) ELSE name

\* re.sub(r'[^a-zA-Z0-9_-]', '_', base_name)[:50]
Sanitize(base_name) ==
    Take([i \in 1..Len(base_name) |->
            IF base_name[i] \in IdChars THEN base_name[i] ELSE "_"], SafeNameMax)

\* extension = Path(original_name).suffix or '.mp4'
ExtensionOf(original_name) ==
    IF PathSuffix(original_name) # <<>> THEN PathSuffix(original_name) ELSE MP4

\* os.path.join(temp_folder, f"{safe_name}{extension}")
TempPath(original_name) ==
    temp_folder \o <<"/">> \o Sanitize(PathStem(original_name)) \o ExtensionOf(original_name)

\* release_tag = f"video-{safe_name}"
ReleaseTag(original_name) == VIDEO_DASH \o Sanitize(PathStem(original_name))

DigitChar(d) == <<"0","1","2","3","4","5","6","7","8","9">>[d + 1]

RECURSIVE IntToStr(_)
\* str(int) of a natural number
IntToStr(n) == IF n < 10 THEN <<DigitChar(n)>> ELSE IntToStr(n \div 10) \o <<DigitChar(n % 10)>>

\* f"{base_name}-{suffix}"
SuffixedTag(base_name, suffix) == base_name \o <<"-">> \o suffix

\* f"{base_name}-{int(time.time())}"
TimestampTag(base_name) == SuffixedTag(base_name, IntToStr(Clock))

(***************************************************************************)
(* The environment: the lines a drive.txt is made of, what Google Drive    *)
(* and GitHub may answer.                                                  *)
(***************************************************************************)
\* "https://github.com/u/r/y.mp4"
LineGithub == <<"h","t","t","p","s",":","/","/","g","i","t","h","u","b",".","c","o","m","/","u","/","r","/","y",".","m","p","4">>
\* "\xa0 https://github.com/u/r/z.mp4 \x0c"
LineGithubPadded == <<"U+00A0"," ","h","t","t","p","s",":","/","/","g","i","t","h","u","b",".","c","o","m","/","u","/","r","/","z",".","m","p","4"," ","\f">>
\* "https://drive.google.com/file/d/ABC123xyz/view?ref=github.com"
LineDriveMentionsGithub == <<"h","t","t","p","s",":","/","/","d","r","i","v","e",".","g","o","o","g","l","e",".","c","o","m","/","f","i","l","e","/","d","/","A","B","C","1","2","3","x","y","z","/","v","i","e","w","?","r","e","f","=","g","i","t","h","u","b",".","c","o","m">>
\* "https://drive.google.com/file/d/ABC123xyz/view"
LineDriveFile == <<"h","t","t","p","s",":","/","/","d","r","i","v","e",".","g","o","o","g","l","e",".","c","o","m","/","f","i","l","e","/","d","/","A","B","C","1","2","3","x","y","z","/","v","i","e","w">>
\* "https://drive.google.com/open?id=Q-7_x"
LineDriveQuery == <<"h","t","t","p","s",":","/","/","d","r","i","v","e",".","g","o","o","g","l","e",".","c","o","m","/","o","p","e","n","?","i","d","=","Q","-","7","_","x">>
\* "https://drive.google.com/drive/folders"
LineDriveNoId == <<"h","t","t","p","s",":","/","/","d","r","i","v","e",".","g","o","o","g","l","e",".","c","o","m","/","d","r","i","v","e","/","f","o","l","d","e","r","s">>
\* "https://example.com/v.mp4"
LineOther == <<"h","t","t","p","s",":","/","/","e","x","a","m","p","l","e",".","c","o","m","/","v",".","m","p","4">>
\* " \x0b"
LineBlank == <<" ","U+000B">>

LineKinds ==
    { LineGithub, LineGithubPadded, LineDriveMentionsGithub, LineDriveFile,
      LineDriveQuery, LineDriveNoId, LineOther, LineBlank }

\* every drive.txt of at most MaxLines lines
Files == UNION {[1..n -> LineKinds] : n \in 0..MaxLines}

\* the 'name' field of Drive's metadata answer: "my clip.mkv"
DriveName == <<"m","y"," ","c","l","i","p",".","m","k","v">>

\* two of the 36^6 values random.choices can return: "k3x9ab", "zz01qp"
Suffixes ==
    { <<"k","3","x","9","a","b">>, <<"z","z","0","1","q","p">> }

\* ''.join(random.choices(string.ascii_lowercase + string.digits, k=length))
generate_random_suffix ==
    {s \in Suffixes : Len(s) = SuffixLength /\ \A i \in 1..Len(s) : s[i] \in Lower \cup Digit}

\* what the repository holds before the run: nothing, or a release tagged
\* video-my_clip and one tagged video-my_clip-k3x9ab
InitialReleases ==
    { {},
      { ReleaseTag(DriveName),
        SuffixedTag(ReleaseTag(DriveName), <<"k","3","x","9","a","b">>) } }

\* the asset's browser_download_url in GitHub's 201 answer:
\* "https://github.com/o/r/releases/download/" tag "/" name
AssetUrl(tag, path) ==
    <<"h","t","t","p","s",":","/","/","g","i","t","h","u","b",".","c","o","m","/","o","/","r","/","r","e","l","e","a","s","e","s","/","d","o","w","n","l","o","a","d","/">>
        \o tag \o <<"/">> \o Basename(path)

(***************************************************************************)
(* State.                                                                  *)
(***************************************************************************)
VARIABLES
    drive_exists,     \* os.path.exists(DRIVE_FILE)
    drive_txt,        \* the lines of drive.txt on disk
    temp_files,       \* the paths that exist under temp_videos
    releases,         \* the tags of the releases of the GitHub repository
    pc,               \* where process_drive_file is
    lines,            \* lines = f.readlines()
    idx,              \* how many lines the for loop has finished
    github_links,     \* github_links
    file_id,          \* file_id of the line being processed
    temp_path,        \* temp_path of the line being processed
    release_tag,      \* release_tag, the base_name of create_unique_release
    existing_tags,    \* existing_tags of create_unique_release
    tag_name,         \* tag_name of create_unique_release
    counter,          \* counter of create_unique_release
    \* history, read by the properties only
    orig_exists,      \* drive_exists when the run started
    orig_txt,         \* drive_txt when the run started
    steps,            \* the steps taken for Drive lines, in order
    contrib,          \* per input line, the entry it put in github_links
    reads,            \* how many times drive.txt was read
    writes,           \* how many times drive.txt was written
    rerun,            \* this run is over the output of an earlier run
    gens,             \* suffixes generated by the collision loop
    collided,         \* the loop's tests of a random candidate that collided
    last_candidate    \* the last random-suffixed candidate generated

disk == <<drive_exists, drive_txt, temp_files, releases>>
locals == <<file_id, temp_path, release_tag, existing_tags, tag_name, counter>>
taghist == <<gens, collided, last_candidate>>
hist == <<orig_exists, orig_txt, steps, contrib, reads, writes, rerun>>
vars == <<disk, pc, lines, idx, github_links, locals, taghist, hist>>

Step(op, ok) == [op |-> op, line |-> idx + 1, ok |-> ok]

Init ==
    /\ drive_exists \in BOOLEAN
    /\ drive_txt \in (IF drive_exists THEN Files ELSE {<<>>})
    /\ temp_files = {}
    /\ releases \in InitialReleases
    /\ pc = "start"
    /\ lines = <<>>
    /\ idx = 0
    /\ github_links = <<>>
    /\ file_id = None /\ temp_path = None /\ release_tag = None
    /\ existing_tags = {} /\ tag_name = None /\ counter = 0
    /\ orig_exists = drive_exists
    /\ orig_txt = drive_txt
    /\ steps = <<>>
    /\ contrib = <<>>
    /\ reads = 0 /\ writes = 0
    /\ rerun = FALSE
    /\ gens = 0 /\ collided = 0 /\ last_candidate = None

(***************************************************************************)
(* process_drive_file                                                      *)
(***************************************************************************)
\* a faulty variant: a line that also names Drive is not taken for a GitHub link
IsGithubLinkUnlessDrive(line) == Contains(line, GITHUB) /\ ~Contains(line, DRIVE)

\* if 'github.com' in line
IsGithubLink(line) == Contains(line, GITHUB)

\* if 'drive.google.com' not in line
IsDriveUrl(line) == Contains(line, DRIVE)

\* a faulty variant: github_links.insert(0, ...)
AppendLinkInFront(links, url) == <<url>> \o links

\* a faulty variant: a link already in the list is not added again
AppendLinkIfNew(links, url) ==
    IF \E k \in 1..Len(links) : links[k] = url THEN links ELSE Append(links, url)

\* github_links.append(...)
AppendLink(links, url) == Append(links, url)

\* a faulty variant: open(DRIVE_FILE, 'a')
WrittenContentAppendMode(old, links) == old \o links

\* with open(DRIVE_FILE, 'w') as f: for link in github_links: f.write(link + '\n')
WrittenContent(old, links) == links

\* a faulty variant: the result of the download is ignored
AfterDownloadUnchecked(ok) == "release"

\* if not download_large_file_from_drive(...): continue
AfterDownload(ok) == IF ok THEN "release" ELSE "loop"

\* a faulty variant: if counter >= 10
FallbackDueOneEarly(c) == c >= MaxCounter

\* if counter > 10
FallbackDue(c) == c > MaxCounter

\* the for loop moves to the next line: the names of this line are dead
NextLine ==
    /\ idx' = idx + 1
    /\ pc' = "loop"
    /\ file_id' = None /\ temp_path' = None /\ release_tag' = None
    /\ existing_tags' = {} /\ tag_name' = None /\ counter' = 0
    /\ gens' = 0 /\ collided' = 0 /\ last_candidate' = None

\* if not os.path.exists(DRIVE_FILE): return
FileMissing ==
    /\ pc = "start"
    /\ ~drive_exists
    /\ pc' = "done"
    /\ UNCHANGED <<disk, lines, idx, github_links, locals, taghist, hist>>

\* lines = f.readlines(); github_links = []; os.makedirs(temp_folder)
ReadFile ==
    /\ pc = "start"
    /\ drive_exists
    /\ lines' = drive_txt
    /\ github_links' = <<>>
    /\ contrib' = [i \in 1..Len(drive_txt) |-> None]
    /\ reads' = reads + 1
    /\ pc' = "loop"
    /\ UNCHANGED <<disk, idx, locals, taghist, orig_exists, orig_txt, steps, writes, rerun>>

\* the line the for loop is at, stripped
CurLine == Strip(lines[idx + 1])

InLoop == pc = "loop" /\ idx < Len(lines)

\* if not line: continue
SkipBlank ==
    /\ InLoop
    /\ CurLine = <<>>
    /\ NextLine
    /\ UNCHANGED <<disk, lines, github_links, hist>>

\* if 'github.com' in line: github_links.append(line); continue
KeepGithub ==
    /\ InLoop
    /\ CurLine # <<>>
    /\ IsGithubLink(CurLine)
    /\ github_links' = AppendLink(github_links, CurLine)
    /\ contrib' = [contrib EXCEPT ![idx + 1] = CurLine]
    /\ NextLine
    /\ UNCHANGED <<disk, lines, orig_exists, orig_txt, steps, reads, writes, rerun>>

\* if 'drive.google.com' not in line: continue
SkipNotDrive ==
    /\ InLoop
    /\ CurLine # <<>>
    /\ ~IsGithubLink(CurLine)
    /\ ~IsDriveUrl(CurLine)
    /\ NextLine
    /\ UNCHANGED <<disk, lines, github_links, hist>>

\* file_id = extract_drive_file_id(line); if not file_id: continue
SkipNoId ==
    /\ InLoop
    /\ CurLine # <<>>
    /\ ~IsGithubLink(CurLine)
    /\ IsDriveUrl(CurLine)
    /\ extract_drive_file_id(CurLine) = None
    /\ steps' = Append(steps, Step("extract", FALSE))
    /\ NextLine
    /\ UNCHANGED <<disk, lines, github_links, orig_exists, orig_txt, contrib, reads, writes, rerun>>

\* file_id = extract_drive_file_id(line), found
BeginDrive ==
    /\ InLoop
    /\ CurLine # <<>>
    /\ ~IsGithubLink(CurLine)
    /\ IsDriveUrl(CurLine)
    /\ extract_drive_file_id(CurLine) # None
    /\ file_id' = extract_drive_file_id(CurLine)
    /\ steps' = Append(steps, Step("extract", TRUE))
    /\ pc' = "info"
    /\ UNCHANGED <<disk, lines, idx, github_links, temp_path, release_tag,
                   existing_tags, tag_name, counter, taghist,
                   orig_exists, orig_txt, contrib, reads, writes, rerun>>

\* get_drive_file_info: the answer is 200 with a name, 200 without one, another
\* status, or the request raises
get_drive_file_info(fid, answer) ==
    IF answer = "200_name" THEN DriveName ELSE FallbackName(fid)

\* original_name = get_drive_file_info(file_id); temp_path and release_tag
\* are computed from it
ResolveName ==
    /\ pc = "info"
    /\ \E answer \in {"200_name", "200_no_name", "non_200", "exception"} :
          LET original_name == get_drive_file_info(file_id, answer)
          IN  /\ temp_path' = TempPath(original_name)
              /\ release_tag' = ReleaseTag(original_name)
              /\ steps' = Append(steps, Step("info", answer = "200_name"))
    /\ pc' = "download"
    /\ UNCHANGED <<disk, lines, idx, github_links, file_id, existing_tags,
                   tag_name, counter, taghist,
                   orig_exists, orig_txt, contrib, reads, writes, rerun>>

\* download_large_file_from_drive: it returns True, or an exception is caught
\* and it returns False, before open(output_path, 'wb') or after it
Download ==
    /\ pc = "download"
    /\ \E result \in {"ok", "error_before_open", "error_after_open"} :
          /\ temp_files' = IF result = "error_before_open" THEN temp_files
                           ELSE temp_files \cup {temp_path}
          /\ steps' = Append(steps, Step("download", result = "ok"))
          /\ IF AfterDownload(result = "ok") = "release"
             THEN /\ pc' = "release"
                  /\ UNCHANGED <<idx, locals, taghist>>
             ELSE NextLine
    /\ UNCHANGED <<drive_exists, drive_txt, releases, lines, github_links,
                   orig_exists, orig_txt, contrib, reads, writes, rerun>>

(***************************************************************************)
(* create_unique_release                                                   *)
(***************************************************************************)
\* get_all_releases: the tags of the repository's releases on a 200 answer,
\* [] on any other status or an exception
get_all_releases(answer) == IF answer = "200" THEN releases ELSE {}

\* existing_tags = [r['tag_name'] for r in get_all_releases(...)];
\* tag_name = base_name; counter = 1
ListReleases ==
    /\ pc = "release"
    /\ \E answer \in {"200", "failed"} :
          /\ existing_tags' = get_all_releases(answer)
          /\ steps' = Append(steps, Step("list", answer = "200"))
    /\ tag_name' = release_tag
    /\ counter' = 1
    /\ pc' = "tagloop"
    /\ UNCHANGED <<disk, lines, idx, github_links, file_id, temp_path, release_tag,
                   taghist, orig_exists, orig_txt, contrib, reads, writes, rerun>>

\* one turn of "while tag_name in existing_tags": a suffix is generated, the
\* counter is incremented, and past the limit the timestamp tag replaces the
\* candidate and the loop is left
TagRetry ==
    /\ pc = "tagloop"
    /\ tag_name \in existing_tags
    /\ \E suffix \in generate_random_suffix :
          /\ last_candidate' = SuffixedTag(release_tag, suffix)
          /\ tag_name' = IF FallbackDue(counter + 1)
                         THEN TimestampTag(release_tag)
                         ELSE SuffixedTag(release_tag, suffix)
    /\ counter' = counter + 1
    /\ gens' = gens + 1
    /\ collided' = IF gens > 0 THEN collided + 1 ELSE collided
    /\ pc' = IF FallbackDue(counter + 1) THEN "post" ELSE "tagloop"
    /\ UNCHANGED <<disk, lines, idx, github_links, file_id, temp_path, release_tag,
                   existing_tags, hist>>

\* the while condition is false: the tag is not among the listed ones
TagAccept ==
    /\ pc = "tagloop"
    /\ tag_name \notin existing_tags
    /\ pc' = "post"
    /\ UNCHANGED <<disk, lines, idx, github_links, locals, taghist, hist>>

\* response = requests.post(url, json=data, headers=headers), outside any try.
\* GitHub answers 201 only for a tag no release of the repository has; on
\* another status the caller removes the temporary file and continues; an
\* exception of the request leaves process_drive_file
CreateRelease ==
    /\ pc = "post"
    /\ \/ /\ tag_name \notin releases
          /\ releases' = releases \cup {tag_name}
          /\ steps' = Append(steps, Step("create", TRUE))
          /\ pc' = "upload"
          /\ UNCHANGED <<temp_files, idx, locals, taghist>>
       \/ /\ temp_files' = temp_files \ {temp_path}
          /\ steps' = Append(steps, Step("create", FALSE))
          /\ NextLine
          /\ UNCHANGED releases
       \/ /\ steps' = Append(steps, Step("create", FALSE))
          /\ pc' = "crashed"
          /\ UNCHANGED <<temp_files, releases, idx, locals, taghist>>
    /\ UNCHANGED <<drive_exists, drive_txt, lines, github_links,
                   orig_exists, orig_txt, contrib, reads, writes, rerun>>

\* upload_to_release: the asset's URL on a 201 answer, None on another status
\* or an exception
upload_to_release(answer) ==
    IF answer = "201" THEN AssetUrl(tag_name, temp_path) ELSE None

\* github_url = upload_to_release(...); if github_url: append; then
\* os.remove(temp_path) and on to the next line
Upload ==
    /\ pc = "upload"
    /\ \E answer \in {"201", "non_201", "exception"} :
          LET github_url == upload_to_release(answer)
          IN  /\ github_links' = IF github_url # None
                                 THEN AppendLink(github_links, github_url)
                                 ELSE github_links
              /\ contrib' = [contrib EXCEPT ![idx + 1] = github_url]
              /\ steps' = Append(steps, Step("upload", github_url # None))
    /\ temp_files' = temp_files \ {temp_path}
    /\ NextLine
    /\ UNCHANGED <<drive_exists, drive_txt, releases, lines,
                   orig_exists, orig_txt, reads, writes, rerun>>

\* after the loop: drive.txt is rewritten with the links
WriteFile ==
    /\ pc = "loop"
    /\ idx = Len(lines)
    /\ drive_txt' = WrittenContent(drive_txt, github_links)
    /\ writes' = writes + 1
    /\ pc' = "done"
    /\ UNCHANGED <<drive_exists, temp_files, releases, lines, idx, github_links,
                   locals, taghist, orig_exists, orig_txt, steps, contrib, reads, rerun>>

\* if __name__ == "__main__": process_drive_file(), invoked again after a run
\* that returned: a new process, with the disk and the repository as they are
RunAgain ==
    /\ pc = "done"
    /\ pc' = "start"
    /\ lines' = <<>>
    /\ idx' = 0
    /\ github_links' = <<>>
    /\ orig_exists' = drive_exists
    /\ orig_txt' = drive_txt
    /\ steps' = <<>>
    /\ contrib' = <<>>
    /\ reads' = 0 /\ writes' = 0
    /\ rerun' = TRUE
    /\ UNCHANGED <<disk, locals, taghist>>

Next ==
    \/ FileMissing
    \/ ReadFile
    \/ SkipBlank
    \/ KeepGithub
    \/ SkipNotDrive
    \/ SkipNoId
    \/ BeginDrive
    \/ ResolveName
    \/ Download
    \/ ListReleases
    \/ TagRetry
    \/ TagAccept
    \/ CreateRelease
    \/ Upload
    \/ WriteFile
    \/ RunAgain

Spec == Init /\ [][Next]_vars

(***************************************************************************)
(* Vocabulary of the properties.                                           *)
(***************************************************************************)
RECURSIVE Contribs(_, _)
\* the entries the input lines lo..hi put in the list, in input order
Contribs(lo, hi) ==
    IF lo > hi THEN <<>>
    ELSE (IF contrib[lo] # None THEN <<contrib[lo]>> ELSE <<>>) \o Contribs(lo + 1, hi)

\* the list holds entry e
Holds(list, e) == \E k \in 1..Len(list) : list[k] = e

\* how many times the list holds entry e
Count(list, e) == Cardinality({k \in 1..Len(list) : list[k] = e})

\* steps has a step op of input line i with outcome ok
Did(op, i, ok) ==
    \E k \in 1..Len(steps) : steps[k] = [op |-> op, line |-> i, ok |-> ok]

\* the full pipeline of input line i succeeded
PipelineSucceeded(i) ==
    /\ Did("extract", i, TRUE)
    /\ Did("download", i, TRUE)
    /\ Did("create", i, TRUE)
    /\ Did("upload", i, TRUE)

\* a line that is a GitHub URL: no blanks around it, and 'github.com' in it
IsGithubUrlLine(l) == l # <<>> /\ Strip(l) = l /\ Contains(l, GITHUB)

\* every line of the file is a GitHub URL
FullyMigrated(f) == \A i \in 1..Len(f) : IsGithubUrlLine(f[i])

\* the run has returned from process_drive_file after rewriting drive.txt
Finished == pc = "done" /\ orig_exists

OpRank(op) ==
    CASE op = "extract" -> 1
      [] op = "info" -> 2
      [] op = "download" -> 3
      [] op = "list" -> 4
      [] op = "create" -> 5
      [] op = "upload" -> 6

(***************************************************************************)
(* C1.  The rewritten drive.txt never contains a Drive URL: no entry       *)
(* contains 'drive.google.com', and every entry is an original input line  *)
(* that was a GitHub URL or the asset URL a successful upload of this run  *)
(* returned.  The code keeps any line that contains 'github.com', also one *)
(* that is a Drive URL.                                                    *)
(***************************************************************************)
C1_NoDriveUrlInOutput ==
    Finished =>
        \A k \in 1..Len(drive_txt) :
            /\ ~Contains(drive_txt[k], DRIVE)
            /\ \/ \E j \in 1..Len(orig_txt) :
                      /\ Contains(orig_txt[j], GITHUB)
                      /\ Strip(orig_txt[j]) = drive_txt[k]
               \/ \E j \in 1..Len(orig_txt) :
                      /\ Did("upload", j, TRUE)
                      /\ contrib[j] = drive_txt[k]

(***************************************************************************)
(* C2.  For every Drive line whose full pipeline succeeded (identifier     *)
(* extracted, download True, release created, upload returned a URL) the   *)
(* output list holds the returned asset URL exactly once, after the        *)
(* entries of the earlier surviving lines and before those of the later    *)
(* ones; the rewritten file is that list.                                  *)
(***************************************************************************)
C2_SuccessInOrder ==
    /\ \A i \in 1..Len(contrib) :
          PipelineSucceeded(i) =>
              /\ contrib[i] # None
              /\ Count(github_links, contrib[i]) = 1
              /\ github_links =
                    Contribs(1, i - 1) \o <<contrib[i]>> \o Contribs(i + 1, Len(contrib))
    /\ Finished => drive_txt = github_links

\* a run is over: a Drive line succeeded as the second of two surviving lines
C2_Witness ==
    /\ Finished
    /\ Len(orig_txt) = 2
    /\ contrib[1] # None
    /\ PipelineSucceeded(2)
    /\ drive_txt = <<contrib[1], contrib[2]>>

(***************************************************************************)
(* C3, as stated.  For any input line containing 'github.com' the output   *)
(* list written holds that line unchanged.                                 *)
(***************************************************************************)
C3_GithubLineUnchanged ==
    Finished =>
        \A j \in 1..Len(orig_txt) :
            Contains(orig_txt[j], GITHUB) => Holds(drive_txt, orig_txt[j])

(***************************************************************************)
(* C3, amended.  For any input line containing 'github.com' the output     *)
(* list written holds that line with the blanks around it stripped,        *)
(* whatever happens to the other lines: once the line is passed it is in   *)
(* github_links, and the rewritten file has it.                            *)
(***************************************************************************)
C3_GithubLineKeptStripped ==
    /\ reads = 1 =>
          \A j \in 1..idx :
              Contains(orig_txt[j], GITHUB) => Holds(github_links, Strip(orig_txt[j]))
    /\ Finished =>
          \A j \in 1..Len(orig_txt) :
              Contains(orig_txt[j], GITHUB) => Holds(drive_txt, Strip(orig_txt[j]))

\* a run is over in which a Drive line failed to download and a padded
\* GitHub line after it was kept, stripped
C3_Witness ==
    /\ Finished
    /\ Len(orig_txt) = 2
    /\ Did("download", 1, FALSE)
    /\ Contains(orig_txt[2], GITHUB)
    /\ Strip(orig_txt[2]) # orig_txt[2]
    /\ drive_txt = <<Strip(orig_txt[2])>>

(***************************************************************************)
(* C4.  Tag uniqueness: when create_unique_release is called with a base   *)
(* tag that a release of the repository already has, the tag it submits    *)
(* in the POST differs from every tag of the repository's releases.  The   *)
(* code compares with the listed tags only, which are none when the        *)
(* listing failed, and does not compare the timestamp tag at all.          *)
(***************************************************************************)
C4_SubmittedTagIsNew ==
    (pc = "post" /\ release_tag \in releases) => tag_name \notin releases

(***************************************************************************)
(* C5.  Idempotence: a run over a file in which every line is a GitHub     *)
(* URL, such as the output of an earlier run, leaves the file with the     *)
(* same lines in the same order and takes no step towards Drive or GitHub  *)
(* (no metadata, download, listing, release or upload request); and what   *)
(* a run writes is such a file.                                            *)
(***************************************************************************)
C5_Idempotent ==
    /\ (orig_exists /\ FullyMigrated(orig_txt)) =>
          /\ steps = <<>>
          /\ pc \notin {"info", "download", "release", "tagloop", "post", "upload", "crashed"}
          /\ github_links = SubSeq(orig_txt, 1, idx)
          /\ pc = "done" => drive_txt = orig_txt
    /\ (Finished /\ writes = 1) => FullyMigrated(drive_txt)

\* a second run is over, on the output of a first run that migrated a Drive
\* line: the file has an asset URL and one of the input's GitHub lines
C5_Witness ==
    /\ rerun
    /\ Finished
    /\ writes = 1
    /\ Len(orig_txt) = 2
    /\ orig_txt[1] \notin LineKinds
    /\ orig_txt[2] = LineGithub
    /\ drive_txt = orig_txt

(***************************************************************************)
(* C6.  Failure isolation: a failure at any step of a Drive line           *)
(* (identifier extraction, metadata lookup, download, release listing,     *)
(* release creation, upload), a network exception included, only drops     *)
(* that line: the line contributes no entry and the run goes on to the     *)
(* final rewrite.  The code lets an exception of the release-creation      *)
(* POST leave process_drive_file.                                          *)
(***************************************************************************)
C6_FailureOnlyDropsLine ==
    /\ pc # "crashed"
    /\ \A k \in 1..Len(steps) :
          ~steps[k].ok => (steps[k].line <= Len(contrib) /\ contrib[steps[k].line] = None)

(***************************************************************************)
(* C7.  When process_drive_file moves on from a Drive line, no file        *)
(* written for that line remains in temp_videos (in a first run, which     *)
(* starts with the folder empty, the folder is empty between lines and at  *)
(* the end).  The code does not remove the partial file of a download      *)
(* that failed.                                                            *)
(***************************************************************************)
C7_NoTempFileLeft ==
    (pc \in {"loop", "done"} /\ ~rerun) => temp_files = {}

(***************************************************************************)
(* C8.  drive.txt is read once and written once, as the last step: until   *)
(* then it is as the run found it, and afterwards it holds exactly the     *)
(* surviving entries, one per line, in input order.  When drive.txt does   *)
(* not exist the run ends without creating it and without any step         *)
(* towards Drive or GitHub.                                                *)
(***************************************************************************)
C8_ReadOnceWrittenLast ==
    /\ reads <= 1 /\ writes <= 1
    /\ reads = 1 => lines = orig_txt
    /\ writes = 0 => (drive_txt = orig_txt /\ drive_exists = orig_exists)
    /\ writes = 1 =>
          /\ pc = "done"
          /\ reads = 1
          /\ idx = Len(lines)
          /\ drive_txt = Contribs(1, Len(contrib))
    /\ Finished => writes = 1
    /\ ~orig_exists =>
          /\ pc \in {"start", "done"}
          /\ ~drive_exists
          /\ reads = 0 /\ writes = 0
          /\ steps = <<>>

\* a run is over that dropped a line and kept one: the file changed
C8_Witness ==
    /\ Finished
    /\ writes = 1
    /\ Len(orig_txt) = 2
    /\ Len(drive_txt) = 1
    /\ drive_txt # orig_txt

(***************************************************************************)
(* C9, as stated.  If the base tag is not among the listed tags it is      *)
(* submitted as is; otherwise random-suffixed candidates are tried, a      *)
(* candidate that is not among the listed tags is the one submitted, and   *)
(* the timestamp tag is used only after 10 random-suffixed candidates      *)
(* have each collided with a listed tag; at most 10 suffixes are           *)
(* generated.                                                              *)
(***************************************************************************)
C9_FallbackAfterTenCollisions ==
    pc = "post" =>
        /\ gens <= MaxCounter
        /\ release_tag \notin existing_tags => (gens = 0 /\ tag_name = release_tag)
        /\ (gens > 0 /\ last_candidate \notin existing_tags) => tag_name = last_candidate
        /\ tag_name = TimestampTag(release_tag) =>
              /\ gens = MaxCounter
              /\ collided = MaxCounter - 1
              /\ last_candidate \in existing_tags

(***************************************************************************)
(* C9, amended.  If the base tag is not among the listed tags it is        *)
(* submitted as is; otherwise random-suffixed candidates are generated,    *)
(* and each of the first 9 is tested against the listed tags: the first    *)
(* of them that is not listed is the one submitted.  When the base tag     *)
(* and the first 9 candidates all collide, a 10th suffix is generated,     *)
(* its candidate is discarded without being tested and the timestamp tag   *)
(* is submitted.  At most 10 suffixes are generated.                       *)
(***************************************************************************)
C9_FallbackAfterNineCollisions ==
    pc = "post" =>
        /\ gens <= MaxCounter
        /\ release_tag \notin existing_tags => (gens = 0 /\ tag_name = release_tag)
        /\ release_tag \in existing_tags =>
              \/ /\ gens \in 1..(MaxCounter - 1)
                 /\ collided = gens - 1
                 /\ tag_name = last_candidate
                 /\ tag_name \notin existing_tags
              \/ /\ gens = MaxCounter
                 /\ collided = MaxCounter - 1
                 /\ tag_name = TimestampTag(release_tag)

\* the timestamp tag is about to be submitted although the 10th candidate is
\* not among the listed tags
C9_Witness ==
    /\ pc = "post"
    /\ tag_name = TimestampTag(release_tag)
    /\ gens = MaxCounter
    /\ last_candidate \notin existing_tags

(***************************************************************************)
(* C10.  For each Drive line the steps run in the order extract            *)
(* identifier, resolve name, download, list and create release, upload,    *)
(* each at most once; a release is created only after that line's          *)
(* download returned success, an upload is made only after that line's     *)
(* release was created, and no step of a line comes before a step of an    *)
(* earlier line.  (Consecutive steps are compared: line numbers that never *)
(* decrease and, within a line, ranks that always increase give the order  *)
(* of every pair, and that no step is repeated.)                           *)
(***************************************************************************)
C10_StepsInOrderOnce ==
    /\ \A a \in 1..(Len(steps) - 1) :
          /\ steps[a].line <= steps[a + 1].line
          /\ steps[a].line = steps[a + 1].line =>
                OpRank(steps[a].op) < OpRank(steps[a + 1].op)
    /\ \A b \in 1..Len(steps) :
          /\ steps[b].op = "info" => Did("extract", steps[b].line, TRUE)
          /\ steps[b].op = "download" =>
                \E a \in 1..(b - 1) : steps[a].op = "info" /\ steps[a].line = steps[b].line
          /\ steps[b].op \in {"list", "create"} =>
                \E a \in 1..(b - 1) :
                    steps[a] = [op |-> "download", line |-> steps[b].line, ok |-> TRUE]
          /\ steps[b].op = "create" =>
                \E a \in 1..(b - 1) : steps[a].op = "list" /\ steps[a].line = steps[b].line
          /\ steps[b].op = "upload" =>
                \E a \in 1..(b - 1) :
                    steps[a] = [op |-> "create", line |-> steps[b].line, ok |-> TRUE]

\* the first line's download failed and the second line went through to its
\* upload
C10_Witness ==
    /\ Did("download", 1, FALSE)
    /\ Did("upload", 2, TRUE)
    /\ Len(steps) = 9
====
